---- MODULE Spec2Model ----
(***************************************************************************)
(* Model of dregsy's registry listing (internal/pkg/registry/ecr.go) and   *)
(* of its sync mapping rules (internal/pkg/sync/mapping.go).               *)
(*                                                                         *)
(* Go strings are modelled as sequences of one-character strings, so that  *)
(* strings.Split, strings.HasPrefix, strings.SplitN and path normalization *)
(* are computed character by character as the library computes them.       *)
(***************************************************************************)
EXTENDS Integers, Sequences, FiniteSets, TLC

VARIABLES
    \* ---- ecr.Retrieve ----
    pages,      \* the backend's answer: a sequence of pages of repository names
    maxItems,   \* Retrieve's argument
    pc,         \* position inside Retrieve
    ret,        \* the accumulator `ret` of Retrieve
    requested,  \* number of pages requested from the backend so far
    out,        \* what Retrieve returned: [names, isNil, err]
    \* ---- IsECR ----
    labels,     \* the dot-free labels the hostname was assembled from
    registry,   \* IsECR's argument
    cls,        \* what IsECR returned: [panic, ecr, region, account]
    \* ---- Mapping ----
    m,          \* the Mapping struct
    verr,       \* result of the last validate(): "none" before any call
    call,       \* the last filterRepos / mapPath / accessor call: [op, arg, res, panic]
    validations \* number of validate() calls made on the Mapping

vars == <<pages, maxItems, pc, ret, requested, out,
          labels, registry, cls, m, verr, call, validations>>

ecrVars == <<pages, maxItems, pc, ret, requested, out>>
hostVars == <<labels, registry, cls>>
mapVars == <<m, verr, call, validations>>

-----------------------------------------------------------------------------
(* Bounds of the model *)

MaxPages == 3
MaxItemsBound == 3
MaxLabels == 8
MaxRepos == 2
MaxSinceLen == 3
MaxValidations == 2

(* page size requested from the backend: ecr.go line 77 *)
MaxResults == 100

-----------------------------------------------------------------------------
(* String helpers (Go package strings) *)

Min(a, b) == IF a <= b THEN a ELSE b

\* strings.HasPrefix
HasPrefix(s, prefix) ==
    /\ Len(s) >= Len(prefix)
    /\ SubSeq(s, 1, Len(prefix)) = prefix

\* strings.Index for a one-character separator; 0 when absent (Go: -1)
IndexOf(s, c) ==
    IF \E i \in 1..Len(s) : s[i] = c
    THEN CHOOSE i \in 1..Len(s) : s[i] = c /\ \A j \in 1..(i-1) : s[j] # c
    ELSE 0

\* strings.Split(s, sep) for a one-character separator
RECURSIVE Split(_, _)
Split(s, sep) ==
    LET i == IndexOf(s, sep)
    IN  IF i = 0 THEN <<s>>
        ELSE <<SubSeq(s, 1, i-1)>> \o Split(SubSeq(s, i+1, Len(s)), sep)

\* strings.Join(parts, sep)
RECURSIVE Join(_, _)
Join(parts, sep) ==
    IF Len(parts) = 0 THEN <<>>
    ELSE IF Len(parts) = 1 THEN parts[1]
    ELSE parts[1] \o <<sep>> \o Join(Tail(parts), sep)

-----------------------------------------------------------------------------
(* IsECR: ecr.go lines 31-47 *)

Sdkr == <<"d","k","r">>
Secr == <<"e","c","r">>
Samazonaws == <<"a","m","a","z","o","n","a","w","s">>
Scom == <<"c","o","m">>
Scn == <<"c","n">>

\* the index tests of line 35-36, in evaluation order (Go indices, 0-based)
IsECRChecks == << [i |-> 1, v |-> Sdkr], [i |-> 2, v |-> Secr],
                  [i |-> 4, v |-> Samazonaws], [i |-> 5, v |-> Scom] >>

IsECRCnCheck == << [i |-> 6, v |-> Scn] >>

\* Left-to-right short-circuit evaluation of url[i] == v && ...: "panic" is
\* Go's index-out-of-range runtime panic.
RECURSIVE EvalIdx(_, _, _)
EvalIdx(url, checks, k) ==
    IF k > Len(checks) THEN "true"
    ELSE IF checks[k].i >= Len(url) THEN "panic"
    ELSE IF url[checks[k].i + 1] # checks[k].v THEN "false"
    ELSE EvalIdx(url, checks, k + 1)

IsECRLenAny(n) == TRUE

\* (len(url) == 6 || len(url) == 7)
IsECRLen(n) == n = 6 \/ n = 7

IsECR(reg) ==
    LET url == Split(reg, ".")
        n == Len(url)
        r1 == IF ~IsECRLen(n) THEN "false" ELSE EvalIdx(url, IsECRChecks, 1)
        r == IF r1 # "true" THEN r1
             ELSE IF n = 6 THEN "true"
             ELSE EvalIdx(url, IsECRCnCheck, 1)
    IN  IF r = "panic"
        THEN [panic |-> TRUE, ecr |-> FALSE, region |-> <<>>, account |-> <<>>]
        ELSE IF r = "true"
        THEN [panic |-> FALSE, ecr |-> TRUE, region |-> url[4], account |-> url[1]]
        ELSE [panic |-> FALSE, ecr |-> FALSE, region |-> <<>>, account |-> <<>>]

NoCls == [panic |-> FALSE, ecr |-> FALSE, region |-> <<"?">>, account |-> <<"?">>]

\* Labels tried at (1-based) position k of a hostname: the label IsECR
\* expects there, a foreign label and the empty label.
ExpectedLabel(k) ==
    CASE k = 1 -> <<"1","2">>
      [] k = 2 -> Sdkr
      [] k = 3 -> Secr
      [] k = 4 -> <<"e","u">>
      [] k = 5 -> Samazonaws
      [] k = 6 -> Scom
      [] k = 7 -> Scn
      [] OTHER -> <<"x">>

LabelsAt(k) == { ExpectedLabel(k), <<"x">>, <<>> }

RECURSIVE LabelSeqs(_)
LabelSeqs(n) ==
    IF n = 0 THEN { <<>> }
    ELSE { Append(s, l) : s \in LabelSeqs(n - 1), l \in LabelsAt(n) }

HostLabels == UNION { LabelSeqs(n) : n \in 1..MaxLabels }

InitIsECR ==
    /\ labels \in HostLabels
    /\ registry = Join(labels, ".")
    /\ cls = NoCls
    /\ pages = <<>> /\ maxItems = 0 /\ pc = "idle" /\ ret = <<>>
    /\ requested = 0 /\ out = [names |-> <<>>, isNil |-> TRUE, err |-> "none"]
    /\ m = <<>> /\ verr = "idle" /\ call = <<>> /\ validations = 0

CallIsECR ==
    /\ pc = "idle" /\ verr = "idle"
    /\ cls = NoCls
    /\ cls' = IsECR(registry)
    /\ UNCHANGED <<labels, registry, ecrVars, mapVars>>

NextIsECR == CallIsECR

SpecIsECR == InitIsECR /\ [][NextIsECR]_vars

\* C4: IsECR never panics; it answers true iff the hostname has 6 or 7
\* dot-separated parts with parts 1,2,4,5 = dkr, ecr, amazonaws, com and, with
\* 7 parts, part 6 = cn; when true region = part 3 and account = part 0, when
\* false both are empty.
C4_IsECRClassifies ==
    cls # NoCls =>
        LET n == Len(labels)
            shape == /\ n \in {6, 7}
                     /\ labels[2] = Sdkr /\ labels[3] = Secr
                     /\ labels[5] = Samazonaws /\ labels[6] = Scom
                     /\ (n = 7 => labels[7] = Scn)
        IN  /\ ~cls.panic
            /\ cls.ecr <=> shape
            /\ cls.ecr => cls.region = labels[4] /\ cls.account = labels[1]
            /\ ~cls.ecr => cls.region = <<>> /\ cls.account = <<>>

C4_Witness ==
    /\ cls # NoCls /\ cls.ecr /\ Len(labels) = 7
    /\ cls.region = <<"e","u">> /\ cls.account = <<"1","2">>

-----------------------------------------------------------------------------
(* ecr.Retrieve: ecr.go lines 66-93 *)

NoOut == [names |-> <<>>, isNil |-> TRUE, err |-> "none"]

\* Page lengths the backend answers with: empty, short and full pages.
PageLens == {0, 1, 2, MaxResults}

\* Values of maxItems: unbounded (<= 0), small, and around one full page.
MaxItemsInputs ==
    (-1..MaxItemsBound) \cup {MaxResults - 1, MaxResults, MaxResults + 1}

RECURSIVE SumSeq(_)
SumSeq(ls) == IF ls = <<>> THEN 0 ELSE Head(ls) + SumSeq(Tail(ls))

\* The backend's pages for the given page lengths. Repository names are
\* unique within a registry: the j-th repository overall is named j.
PagesOf(lens) ==
    [k \in 1..Len(lens) |->
        [i \in 1..lens[k] |-> SumSeq(SubSeq(lens, 1, k - 1)) + i]]

RECURSIVE LenSeqs(_)
LenSeqs(n) ==
    IF n = 0 THEN { <<>> }
    ELSE { Append(s, l) : s \in LenSeqs(n - 1), l \in PageLens }

Backends == { PagesOf(lens) : lens \in UNION { LenSeqs(n) : n \in 1..MaxPages } }

ContinueInclusive(max, n) == max <= 0 \/ n <= max

ContinueNegativeOnly(max, n) == max < 0 \/ n < max

\* line 87: return maxItems <= 0 || len(ret) < maxItems
Continue(max, n) == max <= 0 \/ n < max

ErrorResultPartial(acc, e) == [names |-> acc, isNil |-> acc = <<>>, err |-> e]

\* lines 72 and 89: return nil, fmt.Errorf(...)
ErrorResult(acc, e) == [names |-> <<>>, isNil |-> TRUE, err |-> e]

\* line 92: return ret, nil (ret is a nil slice until the first append)
OkResult(acc) == [names |-> acc, isNil |-> acc = <<>>, err |-> "nil"]

InitRetrieve ==
    /\ pages \in Backends
    /\ maxItems \in MaxItemsInputs
    /\ pc = "start"
    /\ ret = <<>>
    /\ requested = 0
    /\ out = NoOut
    /\ labels = <<>> /\ registry = <<>> /\ cls = NoCls
    /\ m = <<>> /\ verr = "idle" /\ call = <<>> /\ validations = 0

\* lines 70-73: e.getService() fails
GetServiceFail ==
    /\ pc = "start"
    /\ out' = ErrorResult(ret, "error getting ECR service")
    /\ pc' = "done"
    /\ UNCHANGED <<pages, maxItems, ret, requested, hostVars, mapVars>>

\* lines 70-78: e.getService() succeeds, the request input is built
GetServiceOk ==
    /\ pc = "start"
    /\ pc' = "request"
    /\ UNCHANGED <<pages, maxItems, ret, requested, out, hostVars, mapVars>>

\* lines 82, 88-90: the request for the next page fails
PageFail ==
    /\ pc = "request"
    /\ requested' = requested + 1
    /\ out' = ErrorResult(ret, "error listing ECR repositories")
    /\ pc' = "done"
    /\ UNCHANGED <<pages, maxItems, ret, hostVars, mapVars>>

\* lines 82-88: the next page arrives and the callback runs on it; the
\* paginator asks for a further page iff the callback returned true and the
\* backend has one
PageOk ==
    /\ pc = "request"
    /\ requested < Len(pages)
    /\ requested' = requested + 1
    /\ ret' = ret \o pages[requested + 1]
    /\ pc' = IF Continue(maxItems, Len(ret')) /\ requested' < Len(pages)
             THEN "request" ELSE "return"
    /\ UNCHANGED <<pages, maxItems, out, hostVars, mapVars>>

\* line 92
Return ==
    /\ pc = "return"
    /\ out' = OkResult(ret)
    /\ pc' = "done"
    /\ UNCHANGED <<pages, maxItems, ret, requested, hostVars, mapVars>>

NextRetrieve ==
    \/ GetServiceFail
    \/ GetServiceOk
    \/ PageFail
    \/ PageOk
    \/ Return

SpecRetrieve == InitRetrieve /\ [][NextRetrieve]_vars

RECURSIVE Flatten(_)
Flatten(ps) == IF ps = <<>> THEN <<>> ELSE Head(ps) \o Flatten(Tail(ps))

Total == Len(Flatten(pages))

Succeeded == pc = "done" /\ out.err = "nil"

\* C1: with maxItems > 0, a further page is requested only while the
\* accumulated count is < maxItems, paging does not stop earlier than that,
\* and on success the result is a whole number of pages with
\* min(maxItems, total) <= count <= total and count < maxItems + 100.
C1_PageGranularBound ==
    maxItems > 0 =>
        /\ \A k \in 2..requested :
              Len(Flatten(SubSeq(pages, 1, k - 1))) < maxItems
        /\ Succeeded =>
              LET c == Len(out.names)
              IN  /\ out.names = Flatten(SubSeq(pages, 1, requested))
                  /\ c >= maxItems \/ requested = Len(pages)
                  /\ Min(maxItems, Total) <= c
                  /\ c <= Total
                  /\ c < maxItems + MaxResults

C1_Witness ==
    /\ Succeeded /\ maxItems > 0
    /\ Len(out.names) > maxItems
    /\ Len(out.names) < Total

\* C2: whenever Retrieve returns an error (service construction or any page
\* request), the result is nil: names of earlier pages are not returned.
C2_ErrorMeansNilResult ==
    (pc = "done" /\ out.err # "nil") => (out.isNil /\ out.names = <<>>)

C2_Witness ==
    /\ pc = "done"
    /\ out.err = "error listing ECR repositories"
    /\ ret # <<>> /\ requested >= 2
    /\ out.isNil

\* C3: with maxItems <= 0 and no failing page, Retrieve requests every page,
\* returns all names in page and within-page order, none dropped or
\* duplicated, and stops: it never asks beyond the last page and is never
\* stuck before returning.
C3_UnboundedReturnsAll ==
    maxItems <= 0 =>
        /\ requested <= Len(pages)
        /\ pc # "done" => ENABLED (GetServiceOk \/ PageOk \/ Return)
        /\ Succeeded =>
              /\ requested = Len(pages)
              /\ out.names = Flatten(pages)
              /\ out.names = [i \in 1..Total |-> i]

C3_Witness ==
    /\ Succeeded /\ maxItems = 0
    /\ Len(pages) = 2 /\ Len(out.names) = MaxResults + 2

-----------------------------------------------------------------------------
(* Mapping: mapping.go *)

\* line 31
RegexpPrefix == <<"r","e","g","e","x",":">>

\* lines 150-152
isRegexp(expr) == HasPrefix(expr, RegexpPrefix)

normalizePathIdentity(p) == p

\* lines 155-160
normalizePath(p) == IF HasPrefix(p, <<"/">>) THEN p ELSE <<"/">> \o p

(* Regular expressions. The fragment modelled: an optional leading ^, an
   optional trailing $, and between them atoms that are a literal character
   or . (any character); a pattern holding an unbalanced "(" does not
   compile. Replacement templates hold no $ group references. *)

NilRegexp == [nil |-> TRUE, bol |-> FALSE, eol |-> FALSE, atoms |-> <<>>]

\* regexp.Compile
RegexpCompile(v) ==
    IF \E i \in 1..Len(v) : v[i] = "("
    THEN [ok |-> FALSE, re |-> NilRegexp]
    ELSE LET bol == HasPrefix(v, <<"^">>)
             v1 == IF bol THEN Tail(v) ELSE v
             eol == Len(v1) > 0 /\ v1[Len(v1)] = "$"
             v2 == IF eol THEN SubSeq(v1, 1, Len(v1) - 1) ELSE v1
         IN  [ok |-> TRUE,
              re |-> [nil |-> FALSE, bol |-> bol, eol |-> eol, atoms |-> v2]]

\* util.CompileRegex(v, lineMatch): a line match is anchored at both ends
CompileRegex(v, lineMatch) ==
    LET v1 == IF lineMatch /\ ~HasPrefix(v, <<"^">>) THEN <<"^">> \o v ELSE v
        v2 == IF lineMatch /\ ~(Len(v1) > 0 /\ v1[Len(v1)] = "$")
              THEN v1 \o <<"$">> ELSE v1
    IN  RegexpCompile(v2)

\* the pattern matches s at position p (1-based)
MatchAt(re, s, p) ==
    LET n == Len(re.atoms)
    IN  /\ p + n - 1 <= Len(s)
        /\ re.bol => p = 1
        /\ re.eol => p + n - 1 = Len(s)
        /\ \A i \in 1..n : re.atoms[i] = "." \/ re.atoms[i] = s[p + i - 1]

\* (*Regexp).MatchString
MatchString(re, s) == \E p \in 1..(Len(s) + 1) : MatchAt(re, s, p)

\* (*Regexp).ReplaceAllString: leftmost, non-overlapping matches from p on
RECURSIVE ReplaceFrom(_, _, _, _)
ReplaceFrom(re, s, repl, p) ==
    IF p > Len(s)
    THEN IF MatchAt(re, s, p) THEN repl ELSE <<>>
    ELSE IF MatchAt(re, s, p)
    THEN IF Len(re.atoms) = 0
         THEN repl \o <<s[p]>> \o ReplaceFrom(re, s, repl, p + 1)
         ELSE repl \o ReplaceFrom(re, s, repl, p + Len(re.atoms))
    ELSE <<s[p]>> \o ReplaceFrom(re, s, repl, p + 1)

ReplaceAllString(re, s, repl) == ReplaceFrom(re, s, repl, 1)

\* strings.SplitN(s, sep, 2)
SplitN2(s, sep) ==
    LET i == IndexOf(s, sep)
    IN  IF i = 0 THEN <<s>>
        ELSE <<SubSeq(s, 1, i - 1), SubSeq(s, i + 1, Len(s))>>

\* strconv.ParseBool
TrueStrings == { <<"1">>, <<"t">>, <<"T">>, <<"T","R","U","E">>,
                 <<"t","r","u","e">>, <<"T","r","u","e">> }

FalseStrings == { <<"0">>, <<"f">>, <<"F">>, <<"F","A","L","S","E">>,
                  <<"f","a","l","s","e">>, <<"F","a","l","s","e">> }

ParseBool(str) ==
    IF str \in TrueStrings THEN [ok |-> TRUE, v |-> TRUE]
    ELSE IF str \in FalseStrings THEN [ok |-> TRUE, v |-> FALSE]
    ELSE [ok |-> FALSE, v |-> FALSE]

(* time.ParseDuration, [-+]?([0-9]+[a-z]+)+ or "0", on strings without a
   decimal point. Durations are counted in seconds, the smallest unit the
   strings of the model can name. *)

IsDigit(c) == c \in {"0", "1", "2", "3", "4", "5", "6", "7", "8", "9"}

DigitVal(c) ==
    CASE c = "0" -> 0 [] c = "1" -> 1 [] c = "2" -> 2 [] c = "3" -> 3
      [] c = "4" -> 4 [] c = "5" -> 5 [] c = "6" -> 6 [] c = "7" -> 7
      [] c = "8" -> 8 [] c = "9" -> 9

\* number of leading characters of s that are / are not digits
RECURSIVE LeadingRun(_, _)
LeadingRun(s, digits) ==
    IF s = <<>> \/ IsDigit(Head(s)) # digits THEN 0
    ELSE 1 + LeadingRun(Tail(s), digits)

RECURSIVE LeadingInt(_, _)
LeadingInt(s, acc) ==
    IF s = <<>> THEN acc ELSE LeadingInt(Tail(s), acc * 10 + DigitVal(Head(s)))

UnitNames == { <<"s">>, <<"m">>, <<"h">> }

UnitSeconds(u) ==
    CASE u = <<"s">> -> 1 [] u = <<"m">> -> 60 [] u = <<"h">> -> 3600

RECURSIVE ParseGroups(_, _)
ParseGroups(s, d) ==
    IF s = <<>> THEN [ok |-> TRUE, d |-> d]
    ELSE LET nd == LeadingRun(s, TRUE)
             rest == SubSeq(s, nd + 1, Len(s))
             nu == LeadingRun(rest, FALSE)
             u == SubSeq(rest, 1, nu)
         IN  IF nd = 0 \/ nu = 0 \/ u \notin UnitNames
             THEN [ok |-> FALSE, d |-> 0]
             ELSE ParseGroups(SubSeq(rest, nu + 1, Len(rest)),
                              d + LeadingInt(SubSeq(s, 1, nd), 0) * UnitSeconds(u))

ParseDuration(str) ==
    LET signed == str # <<>> /\ Head(str) \in {"-", "+"}
        neg == signed /\ Head(str) = "-"
        body == IF signed THEN Tail(str) ELSE str
        r == ParseGroups(body, 0)
    IN  IF body = <<"0">> THEN [ok |-> TRUE, d |-> 0]
        ELSE IF body = <<>> THEN [ok |-> FALSE, d |-> 0]
        ELSE IF ~r.ok THEN r
        ELSE [ok |-> TRUE, d |-> IF neg THEN 0 - r.d ELSE r.d]

\* tags.NewTagSet: fails as a whole when one spec is malformed
InvalidTagSpecs == { "regex: (" }

NewTagSet(specs) ==
    IF \E i \in 1..Len(specs) : specs[i] \in InvalidTagSpecs
    THEN [ok |-> FALSE, set |-> "nil"]
    ELSE [ok |-> TRUE, set |-> { specs[i] : i \in 1..Len(specs) }]

\* lines 34-48: a Mapping as the configuration loader leaves it
NewMapping(from, to, tags, onlyActive, since) ==
    [From |-> from, To |-> to, Tags |-> tags,
     OnlyActive |-> onlyActive, Since |-> since,
     fromFilter |-> NilRegexp, toFilter |-> NilRegexp,
     onlyActiveFlag |-> FALSE, sinceDuration |-> 0,
     toReplace |-> <<>>, tagSet |-> "nil"]

\* lines 140-147
isRegexpFrom(mp) == isRegexp(mp.From)

isRegexpTo(mp) == isRegexp(mp.To)

\* lines 163-165
hasSince(mp) == mp.sinceDuration > 0

\* lines 168-170
onlyActive(mp) == mp.onlyActiveFlag

StripPrefix(expr) == SubSeq(expr, Len(RegexpPrefix) + 1, Len(expr))

ValidateFromShadowed(mp) ==
    IF mp.From = <<>> THEN [m |-> mp, err |-> "mapping without 'From' path"]
    ELSE IF isRegexpFrom(mp)
    THEN IF CompileRegex(StripPrefix(mp.From), TRUE).ok
         THEN [m |-> mp, err |-> "nil"]
         ELSE [m |-> mp, err |-> "'from' uses invalid regular expression"]
    ELSE [m |-> [mp EXCEPT !.From = normalizePath(mp.From)], err |-> "nil"]

\* lines 57-70
ValidateFrom(mp) ==
    IF mp.From = <<>> THEN [m |-> mp, err |-> "mapping without 'From' path"]
    ELSE IF isRegexpFrom(mp)
    THEN LET c == CompileRegex(StripPrefix(mp.From), TRUE)
             m1 == [mp EXCEPT !.fromFilter = c.re]
         IN  IF c.ok THEN [m |-> m1, err |-> "nil"]
             ELSE [m |-> m1, err |-> "'from' uses invalid regular expression"]
    ELSE [m |-> [mp EXCEPT !.From = normalizePath(mp.From)], err |-> "nil"]

\* lines 72-87
ValidateTo(mp) ==
    IF isRegexpTo(mp)
    THEN LET parts == SplitN2(StripPrefix(mp.To), ",")
         IN  IF Len(parts) < 2
             THEN [m |-> mp, err |-> "replacement expression missing in 'to'"]
             ELSE LET c == CompileRegex(parts[1], FALSE)
                      m1 == [mp EXCEPT !.toReplace = parts[2], !.toFilter = c.re]
                  IN  IF c.ok THEN [m |-> m1, err |-> "nil"]
                      ELSE [m |-> m1,
                            err |-> "'to' uses invalid regular expression"]
    ELSE IF mp.To # <<>>
    THEN [m |-> [mp EXCEPT !.To = normalizePath(mp.To)], err |-> "nil"]
    ELSE [m |-> mp, err |-> "nil"]

\* lines 89-93
ValidateTags(mp) ==
    LET t == NewTagSet(mp.Tags)
    IN  IF ~t.ok THEN [m |-> mp, err |-> "'tags' uses invalid format"]
        ELSE [m |-> [mp EXCEPT !.tagSet = t.set], err |-> "nil"]

ValidateOnlyActiveStrict(mp) ==
    IF mp.OnlyActive # <<>> /\ ~ParseBool(mp.OnlyActive).ok
    THEN [m |-> [mp EXCEPT !.onlyActiveFlag = FALSE], err |-> "invalid syntax"]
    ELSE [m |-> [mp EXCEPT !.onlyActiveFlag =
                    mp.OnlyActive # <<>> /\ ParseBool(mp.OnlyActive).v],
          err |-> "nil"]

\* lines 94-97: the error of ParseBool is dropped
ValidateOnlyActive(mp) ==
    [m |-> [mp EXCEPT !.onlyActiveFlag =
               IF mp.OnlyActive # <<>> THEN ParseBool(mp.OnlyActive).v
               ELSE FALSE],
     err |-> "nil"]

\* lines 98-104
ValidateSince(mp) ==
    IF mp.Since # <<>>
    THEN LET r == ParseDuration(mp.Since)
             m1 == [mp EXCEPT !.sinceDuration = r.d]
         IN  IF r.ok THEN [m |-> m1, err |-> "nil"]
             ELSE [m |-> m1, err |-> "time: invalid duration"]
    ELSE [m |-> mp, err |-> "nil"]

\* lines 51-107: the steps in order, returning at the first error
validate(mp) ==
    LET r1 == ValidateFrom(mp)
        r2 == ValidateTo(r1.m)
        r3 == ValidateTags(r2.m)
        r4 == ValidateOnlyActive(r3.m)
        r5 == ValidateSince(r4.m)
    IN  IF r1.err # "nil" THEN r1
        ELSE IF r2.err # "nil" THEN r2
        ELSE IF r3.err # "nil" THEN r3
        ELSE IF r4.err # "nil" THEN r4
        ELSE r5

RECURSIVE FilterLoop(_, _)
FilterLoop(re, repos) ==
    IF repos = <<>> THEN <<>>
    ELSE IF MatchString(re, Head(repos))
    THEN <<normalizePath(Head(repos))>> \o FilterLoop(re, Tail(repos))
    ELSE FilterLoop(re, Tail(repos))

\* lines 110-123; "panic" is the nil dereference of m.fromFilter.MatchString
filterRepos(mp, repos) ==
    IF isRegexpFrom(mp)
    THEN IF mp.fromFilter.nil /\ repos # <<>>
         THEN [res |-> <<>>, panic |-> TRUE]
         ELSE [res |-> FilterLoop(mp.fromFilter, repos), panic |-> FALSE]
    ELSE [res |-> repos, panic |-> FALSE]

mapPathNoConcat(mp, p) ==
    IF isRegexpTo(mp)
    THEN IF mp.toFilter.nil THEN [res |-> <<>>, panic |-> TRUE]
         ELSE [res |-> ReplaceAllString(mp.toFilter, p, mp.toReplace),
               panic |-> FALSE]
    ELSE IF mp.To # <<>> THEN [res |-> mp.To, panic |-> FALSE]
    ELSE [res |-> p, panic |-> FALSE]

\* lines 126-137; "panic" is the nil dereference of m.toFilter.ReplaceAllString
mapPath(mp, p) ==
    IF isRegexpTo(mp)
    THEN IF mp.toFilter.nil THEN [res |-> <<>>, panic |-> TRUE]
         ELSE [res |-> ReplaceAllString(mp.toFilter, p, mp.toReplace),
               panic |-> FALSE]
    ELSE IF mp.To # <<>>
    THEN IF isRegexpFrom(mp) THEN [res |-> mp.To \o p, panic |-> FALSE]
         ELSE [res |-> mp.To, panic |-> FALSE]
    ELSE [res |-> p, panic |-> FALSE]

(* Inputs *)

Rx(pattern) == RegexpPrefix \o pattern

FromInputs == { <<>>, <<"a">>, <<"/","a">>, Rx(<<"a">>), Rx(<<"/","a">>), Rx(<<"a",".">>), Rx(<<"^","a">>), Rx(<<"(">>), Rx(<<>>) }

ToInputs == { <<>>, <<"b">>,
              <<"/","b">>,
              Rx(<<"a">>),
              Rx(<<"a",",">>),
              Rx(<<"a",",","b">>),
              Rx(<<"a",",","b",",","a">>),
              Rx(<<"(",",","b">>),
              Rx(<<",","b">>),
              Rx(<<"a","$",",","b">>) }

TagInputs == { <<>>, <<"latest">>, <<"latest", "regex: (">> }

RepoNames == { <<"a">>, <<"/","a">>, <<"a","b">> }

RECURSIVE SeqsUpTo(_, _)
SeqsUpTo(S, n) ==
    IF n = 0 THEN { <<>> }
    ELSE SeqsUpTo(S, n - 1) \cup
         { Append(q, x) : q \in { r \in SeqsUpTo(S, n - 1) : Len(r) = n - 1 },
                          x \in S }

RepoLists == SeqsUpTo(RepoNames, MaxRepos)

Paths == { <<>>, <<"a">>, <<"/","a">>, <<"a","a">>, <<"a","b">> }

OnlyActiveInputs == { <<>>, <<"1">>, <<"t","r","u","e">>, <<"T","R","U","E">>, <<"0">>, <<"f","a","l","s","e">>, <<"x">>, <<"y","e","s">>, <<"t","R","u","E">> }

SinceChars == { "-", "0", "1", "h", "x" }

SinceInputs == SeqsUpTo(SinceChars, MaxSinceLen)

NoCall == [op |-> "none", arg |-> <<>>, res |-> <<>>, panic |-> FALSE]

InitOthersIdle ==
    /\ pages = <<>> /\ maxItems = 0 /\ pc = "idle" /\ ret = <<>>
    /\ requested = 0 /\ out = NoOut
    /\ labels = <<>> /\ registry = <<>> /\ cls = NoCls

\* Mappings that vary in `from`, `to` and `tags`
InitMapping ==
    /\ \E from \in FromInputs, to \in ToInputs, tags \in TagInputs,
          since \in { <<>>, <<"x">> } :
          m = NewMapping(from, to, tags, <<>>, since)
    /\ verr = "none" /\ call = NoCall /\ validations = 0
    /\ InitOthersIdle

\* Mappings that vary in `only_active` and `since`
InitFilters ==
    /\ \E from \in { <<>>, <<"a">> }, tags \in { <<>>, <<"regex: (">> },
          act \in OnlyActiveInputs, since \in SinceInputs :
          m = NewMapping(from, <<>>, tags, act, since)
    /\ verr = "none" /\ call = NoCall /\ validations = 0
    /\ InitOthersIdle

\* m.validate(); the results of earlier calls on the Mapping are dropped
Validate ==
    /\ verr # "idle"
    /\ validations < MaxValidations
    /\ LET r == validate(m)
       IN  /\ m' = r.m
           /\ verr' = r.err
    /\ validations' = validations + 1
    /\ call' = NoCall
    /\ UNCHANGED <<ecrVars, hostVars>>

FilterRepos ==
    /\ verr # "idle"
    /\ \E repos \in RepoLists :
          LET r == filterRepos(m, repos)
          IN  call' = [op |-> "filterRepos", arg |-> repos,
                       res |-> r.res, panic |-> r.panic]
    /\ UNCHANGED <<m, verr, validations, ecrVars, hostVars>>

MapPath ==
    /\ verr # "idle"
    /\ \E p \in Paths :
          LET r == mapPath(m, p)
          IN  call' = [op |-> "mapPath", arg |-> p,
                       res |-> r.res, panic |-> r.panic]
    /\ UNCHANGED <<m, verr, validations, ecrVars, hostVars>>

HasSince ==
    /\ verr # "idle"
    /\ call' = [op |-> "hasSince", arg |-> <<>>, res |-> hasSince(m),
                panic |-> FALSE]
    /\ UNCHANGED <<m, verr, validations, ecrVars, hostVars>>

OnlyActive ==
    /\ verr # "idle"
    /\ call' = [op |-> "onlyActive", arg |-> <<>>, res |-> onlyActive(m),
                panic |-> FALSE]
    /\ UNCHANGED <<m, verr, validations, ecrVars, hostVars>>

NextMapping ==
    \/ Validate
    \/ FilterRepos
    \/ MapPath
    \/ HasSince
    \/ OnlyActive

SpecMapping == InitMapping /\ [][NextMapping]_vars

NextFilters ==
    \/ Validate
    \/ HasSince
    \/ OnlyActive

SpecFilters == InitFilters /\ [][NextFilters]_vars

-----------------------------------------------------------------------------
(* The program as a whole *)

Init == InitRetrieve \/ InitIsECR \/ InitMapping \/ InitFilters

Next == NextRetrieve \/ NextIsECR \/ NextMapping

Spec == Init /\ [][Next]_vars

-----------------------------------------------------------------------------
(* Properties of Mapping *)

Validated == validations >= 1 /\ verr = "nil"

\* `from`, `to` and `tags` of the Mapping are acceptable to validate
OtherFieldsValid ==
    /\ m.From # <<>>
    /\ isRegexp(m.From) => CompileRegex(StripPrefix(m.From), TRUE).ok
    /\ isRegexp(m.To) =>
          /\ Len(SplitN2(StripPrefix(m.To), ",")) = 2
          /\ CompileRegex(SplitN2(StripPrefix(m.To), ",")[1], FALSE).ok
    /\ \A i \in 1..Len(m.Tags) : m.Tags[i] \notin InvalidTagSpecs

SinceUnparseable == m.Since # <<>> /\ ~ParseDuration(m.Since).ok

OnlyActiveUnparseable == m.OnlyActive # <<>> /\ ~ParseBool(m.OnlyActive).ok

\* C5: on a mapping whose other fields are valid, an unparseable `since`
\* makes validate fail, while an unparseable `only_active` is no error and
\* leaves onlyActive() false; an unset `only_active` gives false as well.
C5_StrictSinceLenientOnlyActive ==
    validations >= 1 =>
        /\ (OtherFieldsValid /\ SinceUnparseable) => verr # "nil"
        /\ (OtherFieldsValid /\ OnlyActiveUnparseable /\ ~SinceUnparseable)
              => verr = "nil"
        /\ (OtherFieldsValid /\ OnlyActiveUnparseable) => ~onlyActive(m)
        /\ (OtherFieldsValid /\ m.OnlyActive = <<>>) => ~onlyActive(m)
        /\ call.op = "onlyActive" => call.res = onlyActive(m)

C5_Witness ==
    /\ Validated
    /\ m.OnlyActive = <<"y","e","s">>
    /\ m.Since = <<"1","h">>
    /\ call.op = "onlyActive" /\ call.res = FALSE

\* C6: validate fails when `from` is empty, and when `to` is in regex form
\* with no comma or with an empty replacement template after the first comma.
C6_EmptyTemplateRejected ==
    validations >= 1 =>
        /\ m.From = <<>> => verr # "nil"
        /\ isRegexp(m.To) =>
              LET parts == SplitN2(StripPrefix(m.To), ",")
              IN  (Len(parts) < 2 \/ parts[2] = <<>>) => verr # "nil"

\* C7: on a validated Mapping mapPath(p) is the replace-all of p by the `to`
\* pattern and template when `to` is a regex, to + p when `to` is a non-empty
\* literal and `from` a regex, `to` when both are literal, p when `to` is
\* empty.
C7_MapPathCases ==
    (Validated /\ call.op = "mapPath") =>
        LET p == call.arg
            parts == SplitN2(StripPrefix(m.To), ",")
        IN  /\ ~call.panic
            /\ isRegexp(m.To) =>
                  call.res = ReplaceAllString(CompileRegex(parts[1], FALSE).re,
                                              p, parts[2])
            /\ (~isRegexp(m.To) /\ m.To # <<>> /\ isRegexp(m.From)) =>
                  call.res = m.To \o p
            /\ (~isRegexp(m.To) /\ m.To # <<>> /\ ~isRegexp(m.From)) =>
                  call.res = m.To
            /\ m.To = <<>> => call.res = p

C7_Witness ==
    /\ Validated /\ call.op = "mapPath"
    /\ isRegexp(m.From) /\ m.To = <<"/","b">>
    /\ call.arg = <<"/","a">> /\ call.res = <<"/","b","/","a">>

C9_SinceNonNegative ==
    Validated =>
        /\ m.sinceDuration >= 0
        /\ hasSince(m) <=> (m.Since # <<>> /\ m.sinceDuration # 0)

\* C10: after a successful validate, also a repeated one, isRegexpFrom() holds
\* iff fromFilter is non-nil, isRegexpTo() holds iff toFilter is non-nil,
\* literal paths start with "/", and filterRepos and mapPath never dereference
\* a nil pattern.
C10_PrefixAgreesWithCompiled ==
    Validated =>
        /\ isRegexpFrom(m) <=> ~m.fromFilter.nil
        /\ isRegexpTo(m) <=> ~m.toFilter.nil
        /\ ~isRegexpFrom(m) => HasPrefix(m.From, <<"/">>)
        /\ (~isRegexpTo(m) /\ m.To # <<>>) => HasPrefix(m.To, <<"/">>)
        /\ ~call.panic

C10_Witness ==
    /\ Validated /\ validations = 2
    /\ isRegexpFrom(m) /\ isRegexpTo(m)
    /\ call.op = "mapPath" /\ call.res # call.arg

====
